---- MODULE Spec2Model ----
(***************************************************************************)
(* HylaFAX gateway: the PyFaxAPI session wrapper (src/api/pyfax.py) and    *)
(* the Flask transport adapter that opens one session per request          *)
(* (src/api/rest_api.py).                                                  *)
(*                                                                         *)
(* The specifications share the method definitions:                        *)
(*   SpecSession  a library client calling connect, login, disconnect and  *)
(*                the job-control methods of one PyFaxAPI object in any    *)
(*                order (as pyfax.py's __main__ block does);               *)
(*   SpecCall     a library client calling send_fax and get_job_status on  *)
(*                a PyFaxAPI object in any state of its two flags;         *)
(*   SpecBackend  the same client against a backend that reports as its    *)
(*                interface describes;                                     *)
(*   Spec         one request worker of the transport adapter, serving     *)
(*                requests of every kind one after the other;              *)
(*   SpecConc     NReq request workers, each running one endpoint handler  *)
(*                at a time, interleaved at the backend calls.             *)
(* The backend library (libfaxapi) is opaque: every call into it returns   *)
(* success or failure, and a message, nondeterministically.                *)
(***************************************************************************)
EXTENDS Integers, Sequences, FiniteSets, TLC

\* ------------------------------------------------------------------ bounds
NReq == 2          \* request workers running concurrently
NHandle == 2       \* backend handles available to fax_api_create

Req == 1..NReq
ObjIds == Req      \* PyFaxAPI object identities: one per worker's with statement
Handles == 1..NHandle
Null == 0          \* a NULL handle; a local variable not bound to an object
None == "<None>"   \* Python's None where a string may stand (a NULL char pointer)

Msgs == {"", "job not found"}            \* text the backend may leave in error_msg
BkOutcomes == [ok : BOOLEAN, msg : Msgs] \* what one backend call reports
Usernames == {"", "alice"}
JobIds == {"42"}

\* one call into the backend library: function, handle, the argument after it
Call(fn, h, param) == [fn |-> fn, h |-> h, param |-> param]

\* error_msg.value.decode('utf-8') if error_msg.value else ""
Decode(msg) == IF msg # "" THEN msg ELSE ""

\* --------------------------------------------------- PyFaxAPI (pyfax.py)
\* A PyFaxAPI object is the record [api_instance, connected, logged_in].
\* Every method is an operator from the object, its arguments and the
\* backend's outcome to [self: the object afterwards, ret: the value
\* returned, calls: the backend calls issued, in order].

\* __init__ after fax_api_create returned handle h
PyFaxAPI_init(h) == [api_instance |-> h, connected |-> FALSE, logged_in |-> FALSE]

\* the record of one method call: the method, the object before it, the
\* backend calls it issued and the value it returned
NoCall == [op |-> "none", pre |-> PyFaxAPI_init(1), calls |-> <<>>, ret |-> TRUE]
Record(op, pre, r) == [op |-> op, pre |-> pre, calls |-> r.calls, ret |-> r.ret]

connect(self, bk) ==
    [self  |-> [self EXCEPT !.connected = bk.ok],
     ret   |-> <<bk.ok, Decode(bk.msg)>>,
     calls |-> <<Call("fax_api_connect", self.api_instance, None)>>]

disconnect(self, bk) ==
    IF self.connected
    THEN [self  |-> [self EXCEPT !.connected = FALSE, !.logged_in = FALSE],
          ret   |-> bk.ok,
          calls |-> <<Call("fax_api_disconnect", self.api_instance, None)>>]
    ELSE [self |-> self, ret |-> TRUE, calls |-> <<>>]

\* username.encode('utf-8') if username else None
UsernameArg(username) == IF username # "" THEN username ELSE None

login(self, username, bk) ==
    [self  |-> [self EXCEPT !.logged_in = bk.ok],
     ret   |-> <<bk.ok, Decode(bk.msg)>>,
     calls |-> <<Call("fax_api_login", self.api_instance, UsernameArg(username))>>]

\* a job-control call that returns the flag and drops the message
JobControlNoMessage(fn, self, job_id, bk) ==
    [self  |-> self,
     ret   |-> <<bk.ok, "">>,
     calls |-> <<Call(fn, self.api_instance, job_id)>>]

\* the common body of kill_job, suspend_job, resume_job and wait_for_job
JobControl(fn, self, job_id, bk) ==
    [self  |-> self,
     ret   |-> <<bk.ok, Decode(bk.msg)>>,
     calls |-> <<Call(fn, self.api_instance, job_id)>>]

kill_job(self, job_id, bk) == JobControl("fax_api_kill_job", self, job_id, bk)
suspend_job(self, job_id, bk) == JobControl("fax_api_suspend_job", self, job_id, bk)
resume_job(self, job_id, bk) == JobControl("fax_api_resume_job", self, job_id, bk)
wait_for_job(self, job_id, bk) == JobControl("fax_api_wait_for_job", self, job_id, bk)

\* QueueType
QueueType ==
    [SEND_QUEUE |-> 0, DONE_QUEUE |-> 1, RECV_QUEUE |-> 2,
     ARCHIVE_QUEUE |-> 3, DOCUMENT_QUEUE |-> 4, SERVER_STATUS |-> 5]
QueueNames == DOMAIN QueueType

\* FaxJobInfo: twelve c_char_p fields, each NULL (None) or a string
JobInfoFields ==
    {"jobId", "state", "pages", "dials", "tts", "sender", "number", "modem",
     "tag", "status", "fileName", "received"}
NullJobInfo == [f \in JobInfoFields |-> None]
JobInfo(id, st) == [NullJobInfo EXCEPT !["jobId"] = id, !["state"] = st]

\* x.decode('utf-8') if x else ""
DecodeField(x) == IF x # None /\ x # "" THEN x ELSE ""

\* the dictionary get_job_status builds from one FaxJobInfo
JobDict(job_info) ==
    [job_id    |-> DecodeField(job_info["jobId"]),
     state     |-> DecodeField(job_info["state"]),
     pages     |-> DecodeField(job_info["pages"]),
     dials     |-> DecodeField(job_info["dials"]),
     tts       |-> DecodeField(job_info["tts"]),
     sender    |-> DecodeField(job_info["sender"]),
     number    |-> DecodeField(job_info["number"]),
     modem     |-> DecodeField(job_info["modem"]),
     tag       |-> DecodeField(job_info["tag"]),
     status    |-> DecodeField(job_info["status"]),
     file_name |-> DecodeField(job_info["fileName"]),
     received  |-> DecodeField(job_info["received"])]

\* an exception: its class and str(e); NoExc where nothing is raised
Raise(type, text) == [type |-> type, text |-> text]
NoExc == Raise("none", "")

max_jobs == 1000

\* jobs_array[i] (0-based) after the backend wrote the entries `written`:
\* the array is zero-initialised, so an entry not written is all NULL
ArrayAt(written, i) == IF i + 1 <= Len(written) THEN written[i + 1] ELSE NullJobInfo

\* an array as long as the count the backend reports
NeverOutOfRange(i) == FALSE

\* jobs_array[i] raises IndexError: index i lies outside the max_jobs entries
OutOfRange(i) == i >= max_jobs

\* a query that hands on the entries of the array whatever the call returned
IgnoreFailure(success) == FALSE

\* get_job_status, `if not success: return []`
QueryFailed(success) == ~success

\* get_job_status; bk = [ok, count, written]: the backend's return value, the
\* jobs_count it stored and the array entries it wrote. exc is the exception
\* the call raises (NoExc: it returns ret)
get_job_status(self, queue_type, bk) ==
    IF ~self.connected \/ ~self.logged_in
    THEN [self |-> self, ret |-> <<>>, calls |-> <<>>, exc |-> NoExc]
    ELSE LET calls == <<Call("fax_api_get_job_status", self.api_instance,
                             QueueType[queue_type])>>
         IN  IF QueryFailed(bk.ok)
             THEN [self |-> self, ret |-> <<>>, calls |-> calls, exc |-> NoExc]
             ELSE IF \E i \in 0..(bk.count - 1) : OutOfRange(i)
             THEN [self |-> self, ret |-> <<>>, calls |-> calls, exc |-> Raise("IndexError", "invalid index")]
             ELSE [self  |-> self,
                   ret   |-> [i \in 1..bk.count |-> JobDict(ArrayAt(bk.written, i - 1))],
                   calls |-> calls,
                   exc   |-> NoExc]

\* Python values as json.loads yields them: a type tag t and a value v
JStr(x) == [t |-> "str", v |-> x]
\* an int is the pair <<hi, lo>> standing for hi * 65536 + lo, 0 <= lo < 65536,
\* so that values beyond 32 bits can be written
JIntWide(hi, lo) == [t |-> "int", v |-> <<hi, lo>>]
JInt(n) == JIntWide(n \div 65536, n % 65536)
JFloat(n) == [t |-> "float", v |-> n]
JBool(b) == [t |-> "bool", v |-> b]
JNull == [t |-> "null", v |-> 0]
JList(items) == [t |-> "list", v |-> items]
JDict(pairs) == [t |-> "dict", v |-> pairs]   \* <<key, value>> pairs, in order

\* bool(x)
Truthy(x) ==
    CASE x.t = "str" -> x.v # ""
      [] x.t = "int" -> x.v # <<0, 0>>
      [] x.t = "float" -> x.v # 0
      [] x.t = "bool" -> x.v
      [] x.t = "null" -> FALSE
      [] x.t = "list" -> x.v # <<>>
      [] x.t = "dict" -> x.v # <<>>

\* FaxSendOptions._fields_: the ctypes type of each declared field
FieldType ==
    [recipient |-> "c_char_p", dialString |-> "c_char_p", subAddress |-> "c_char_p",
     coverComments |-> "c_char_p", coverRegarding |-> "c_char_p",
     coverFromVoice |-> "c_char_p", coverFromFax |-> "c_char_p",
     coverFromCompany |-> "c_char_p", coverFromLocation |-> "c_char_p",
     coverTemplate |-> "c_char_p", tagLineFormat |-> "c_char_p", jobTag |-> "c_char_p",
     tsi |-> "c_char_p", sendTime |-> "c_char_p", killTime |-> "c_char_p",
     retryTime |-> "c_char_p", pageSize |-> "c_char_p", notification |-> "c_char_p",
     priority |-> "c_char_p", vResolution |-> "c_float", maxRetries |-> "c_int",
     maxDials |-> "c_int", autoCoverPage |-> "c_bool", useECM |-> "c_bool",
     useXVRes |-> "c_bool", archive |-> "c_bool", desiredSpeed |-> "c_int",
     minSpeed |-> "c_int", desiredDataFormat |-> "c_int"]
FieldNames == DOMAIN FieldType

\* type(x).__name__
PyType(x) == IF x.t = "null" THEN "NoneType" ELSE x.t

\* type(value).__name__ of the value handed to setattr: a str has been
\* encoded to bytes
SetType(x) == IF x.t = "str" THEN "bytes" ELSE PyType(x)

\* the attributes other than its fields on which hasattr of a FaxSendOptions
\* instance is True
OtherAttrs ==
    {"__class__", "__ctypes_from_outparam__", "__delattr__", "__dict__", "__dir__",
     "__doc__", "__eq__", "__format__", "__ge__", "__getattribute__", "__getstate__",
     "__gt__", "__hash__", "__init__", "__init_subclass__", "__le__", "__lt__",
     "__module__", "__ne__", "__new__", "__reduce__", "__reduce_ex__", "__repr__",
     "__setattr__", "__setstate__", "__sizeof__", "__str__", "__subclasshook__",
     "__weakref__", "_b_base_", "_b_needsfree_", "_fields_", "_objects"}

\* hasattr(c_options, key)
HasAttr(key) == key \in FieldNames \/ key \in OtherAttrs

\* setattr(c_options, key, value) for a key of OtherAttrs: the exception
\* raised (NoExc: accepted; the fields of the structure stay as they were)
SetOther(key, x) ==
    CASE key = "__class__" ->
            Raise("TypeError",
                  "__class__ must be set to a class, not '" \o SetType(x) \o "' object")
      [] key = "__dict__" ->
            IF x.t = "dict" THEN NoExc
            ELSE Raise("TypeError",
                       "__dict__ must be set to a dictionary, not a '" \o SetType(x) \o "'")
      [] key = "__weakref__" ->
            Raise("AttributeError",
                  "attribute '__weakref__' of 'FaxSendOptions' objects is not writable")
      [] key \in {"_objects", "_b_base_", "_b_needsfree_"} ->
            Raise("AttributeError", "readonly attribute")
      [] OTHER -> NoExc

\* a C int from the Python int <<hi, lo>>: reduced to 32 bits, two's complement
WrapInt(n) == (((n[1] + 32768) % 65536) - 32768) * 65536 + n[2]

RECURSIVE Pow2(_)
Pow2(n) == IF n = 0 THEN 1 ELSE 2 * Pow2(n - 1)

\* int.bit_length() of n >= 0
RECURSIVE BitLen(_)
BitLen(n) == IF n = 0 THEN 0 ELSE 1 + BitLen(n \div 2)

\* the negation of the number <<hi, lo>>
NegPair(p) == IF p[2] = 0 THEN <<0 - p[1], 0>> ELSE <<0 - p[1] - 1, 65536 - p[2]>>

\* the number <<hi, lo>> >= 0 rounded to the 24 significant bits of a C
\* float, ties to even
RoundMagnitude(p) ==
    LET d == BitLen(p[1]) - 8      \* the low bits that do not fit
    IN  IF d <= 0 THEN p
        ELSE IF d <= 16
        THEN LET unit == Pow2(d)
                 rem == p[2] % unit
                 half == unit \div 2
                 odd == IF d = 16 THEN p[1] % 2 = 1 ELSE (p[2] \div unit) % 2 = 1
                 up == rem > half \/ (rem = half /\ odd)
                 lo == p[2] - rem + (IF up THEN unit ELSE 0)
             IN  IF lo >= 65536 THEN <<p[1] + 1, lo - 65536>> ELSE <<p[1], lo>>
        ELSE LET unit == Pow2(d - 16)
                 remhi == p[1] % unit
                 halfhi == unit \div 2
                 odd == (p[1] \div unit) % 2 = 1
                 up == \/ remhi > halfhi
                       \/ remhi = halfhi /\ (p[2] > 0 \/ odd)
             IN  <<p[1] - remhi + (IF up THEN unit ELSE 0), 0>>

\* a C float from the number <<hi, lo>>
RoundSingle(p) ==
    IF p[1] < 0 THEN NegPair(RoundMagnitude(NegPair(p))) ELSE RoundMagnitude(p)

\* FaxSendOptions(): every field zero. A C float is written as the pair
\* <<hi, lo>> of the number it holds.
DefaultField(ty) ==
    CASE ty = "c_char_p" -> [k |-> "NULL", v |-> 0]
      [] ty = "c_float" -> [k |-> "float", v |-> <<0, 0>>]
      [] ty = "c_int" -> [k |-> "int", v |-> 0]
      [] ty = "c_bool" -> [k |-> "bool", v |-> FALSE]
DefaultOptions == [f \in FieldNames |-> DefaultField(FieldType[f])]

\* setattr(c_options, field, value) on a field of ctypes type ty, where a str
\* value has been encoded to bytes: the exception raised (NoExc: accepted)
\* and the C value stored. An int stored in a c_char_p is taken as an
\* address, and address 0 is the NULL pointer; a float of this model is a
\* whole number.
SetField(ty, x) ==
    CASE ty = "c_bool" -> [exc |-> NoExc, c |-> [k |-> "bool", v |-> Truthy(x)]]
      [] ty = "c_char_p" ->
            CASE x.t = "str" -> [exc |-> NoExc, c |-> [k |-> "bytes", v |-> x.v]]
              [] x.t = "int" ->
                    [exc |-> NoExc,
                     c |-> IF x.v = <<0, 0>> THEN [k |-> "NULL", v |-> 0]
                           ELSE [k |-> "address", v |-> x.v]]
              [] x.t = "bool" ->
                    [exc |-> NoExc,
                     c |-> IF x.v THEN [k |-> "address", v |-> <<0, 1>>]
                           ELSE [k |-> "NULL", v |-> 0]]
              [] x.t = "null" -> [exc |-> NoExc, c |-> [k |-> "NULL", v |-> 0]]
              [] OTHER ->
                    [exc |-> Raise("TypeError",
                                "bytes or integer address expected instead of "
                                    \o SetType(x) \o " instance"),
                     c |-> DefaultField(ty)]
      [] ty = "c_float" ->
            CASE x.t = "int" ->
                    [exc |-> NoExc, c |-> [k |-> "float", v |-> RoundSingle(x.v)]]
              [] x.t = "float" ->
                    [exc |-> NoExc,
                     c |-> [k |-> "float",
                            v |-> RoundSingle(<<x.v \div 65536, x.v % 65536>>)]]
              [] x.t = "bool" ->
                    [exc |-> NoExc,
                     c |-> [k |-> "float", v |-> IF x.v THEN <<0, 1>> ELSE <<0, 0>>]]
              [] OTHER ->
                    [exc |-> Raise("TypeError", "must be real number, not " \o SetType(x)),
                     c |-> DefaultField(ty)]
      [] ty = "c_int" ->
            CASE x.t = "int" -> [exc |-> NoExc, c |-> [k |-> "int", v |-> WrapInt(x.v)]]
              [] x.t = "bool" ->
                    [exc |-> NoExc, c |-> [k |-> "int", v |-> IF x.v THEN 1 ELSE 0]]
              [] OTHER ->
                    [exc |-> Raise("TypeError",
                                "'" \o SetType(x)
                                    \o "' object cannot be interpreted as an integer"),
                     c |-> DefaultField(ty)]

\* the loop `for key, value in options.items()` from pair i on, c being the
\* structure so far: the exception that ends it (NoExc) and the structure
RECURSIVE MarshalFrom(_, _, _)
MarshalFrom(pairs, i, c) ==
    IF i > Len(pairs) THEN [exc |-> NoExc, c |-> c]
    ELSE LET key == pairs[i][1]
             value == pairs[i][2]
         IN  IF ~HasAttr(key) THEN MarshalFrom(pairs, i + 1, c)
             ELSE IF key \in FieldNames
             THEN LET set == SetField(FieldType[key], value)
                  IN  IF set.exc # NoExc THEN [exc |-> set.exc, c |-> c]
                      ELSE MarshalFrom(pairs, i + 1, [c EXCEPT ![key] = set.c])
             ELSE IF SetOther(key, value) # NoExc
             THEN [exc |-> SetOther(key, value), c |-> c]
             ELSE MarshalFrom(pairs, i + 1, c)

\* send_fax, "Convert options to C structure": options is None or a value
Marshal(options) ==
    IF ~Truthy(options) THEN [exc |-> NoExc, c |-> DefaultOptions]
    ELSE IF options.t # "dict"
    THEN [exc |-> Raise("AttributeError",
                        "'" \o PyType(options) \o "' object has no attribute 'items'"),
          c |-> DefaultOptions]
    ELSE MarshalFrom(options.v, 1, DefaultOptions)

\* the characters of the strings that are iterated over in this model
Chars(x) ==
    CASE x = "" -> <<>>
      [] x = "7" -> <<"7">>
      [] x = "ab" -> <<"a", "b">>

\* len(x): the length, or -1 where len raises TypeError
PyLen(x) ==
    CASE x.t \in {"list", "dict"} -> Len(x.v)
      [] x.t = "str" -> Len(Chars(x.v))
      [] OTHER -> -1

\* what `for i, dest in enumerate(x)` yields
Items(x) ==
    CASE x.t = "list" -> x.v
      [] x.t = "dict" -> [i \in 1..Len(x.v) |-> JStr(x.v[i][1])]
      [] x.t = "str" -> [i \in 1..Len(Chars(x.v)) |-> JStr(Chars(x.v)[i])]

\* the c_char_p array built from a list: the exception raised and the array
EncodeArray(x) ==
    IF PyLen(x) < 0
    THEN [exc |-> Raise("TypeError", "object of type '" \o PyType(x) \o "' has no len()"),
          a |-> <<>>]
    ELSE IF \E i \in 1..Len(Items(x)) : Items(x)[i].t # "str"
    THEN LET first == CHOOSE i \in 1..Len(Items(x)) :
                        /\ Items(x)[i].t # "str"
                        /\ \A j \in 1..(i - 1) : Items(x)[j].t = "str"
         IN  [exc |-> Raise("AttributeError",
                            "'" \o PyType(Items(x)[first])
                                \o "' object has no attribute 'encode'"),
              a |-> <<>>]
    ELSE [exc |-> NoExc, a |-> [i \in 1..Len(Items(x)) |-> Items(x)[i].v]]

\* a result whose group identifier is read from the job identifier
ResultDictJobAsGroup(success, result) ==
    [success     |-> success /\ result.success,
     job_id      |-> DecodeField(result.jobId),
     group_id    |-> DecodeField(result.jobId),
     total_pages |-> result.totalPages,
     error       |-> DecodeField(result.errorMessage)]

\* a result that succeeds when either the call or the result says so
ResultDictEither(success, result) ==
    [success     |-> success \/ result.success,
     job_id      |-> DecodeField(result.jobId),
     group_id    |-> DecodeField(result.groupId),
     total_pages |-> result.totalPages,
     error       |-> DecodeField(result.errorMessage)]

\* send_fax, the dictionary returned: success is the backend call's return
\* value, result the FaxSubmissionResult the backend filled in
ResultDict(success, result) ==
    [success     |-> success /\ result.success,
     job_id      |-> DecodeField(result.jobId),
     group_id    |-> DecodeField(result.groupId),
     total_pages |-> result.totalPages,
     error       |-> DecodeField(result.errorMessage)]

\* send_fax; bk = [ok, result]: the backend's return value and the
\* FaxSubmissionResult it filled in. exc is the exception the call raises
\* (NoExc: it returns ret)
send_fax(self, files, destinations, options, bk) ==
    IF ~self.connected \/ ~self.logged_in
    THEN [self |-> self, calls |-> <<>>, exc |-> NoExc,
          ret |-> [success |-> FALSE, error |-> "Not connected or logged in"]]
    ELSE LET c_options == Marshal(options)
             files_array == EncodeArray(files)
             dest_array == EncodeArray(destinations)
             exc == IF c_options.exc # NoExc THEN c_options.exc
                    ELSE IF files_array.exc # NoExc THEN files_array.exc
                    ELSE dest_array.exc
         IN  IF exc # NoExc
             THEN [self |-> self, calls |-> <<>>, exc |-> exc, ret |-> [raised |-> exc]]
             ELSE [self  |-> self,
                   calls |-> <<Call("fax_api_send_fax", self.api_instance,
                                    [files |-> files_array.a, destinations |-> dest_array.a,
                                     options |-> c_options.c])>>,
                   exc   |-> NoExc,
                   ret   |-> ResultDict(bk.ok, bk.result)]

\* what the backend may answer to fax_api_send_fax
SubmissionResult(success, jobId, groupId, errorMessage, totalPages) ==
    [success |-> success, jobId |-> jobId, groupId |-> groupId,
     errorMessage |-> errorMessage, totalPages |-> totalPages]
SendOutcomes ==
    {[ok |-> TRUE, result |-> SubmissionResult(TRUE, "42", None, None, 3)],
     [ok |-> TRUE, result |-> SubmissionResult(TRUE, "42", "g7", None, 3)],
     [ok |-> TRUE, result |-> SubmissionResult(FALSE, None, None, "rejected", 0)],
     [ok |-> FALSE, result |-> SubmissionResult(FALSE, None, None, "rejected", 0)],
     [ok |-> FALSE, result |-> SubmissionResult(FALSE, None, None, None, 0)],
     [ok |-> FALSE, result |-> SubmissionResult(TRUE, "42", None, None, 3)]}

\* a teardown that releases the handle only when the with block ended
\* without an exception
PyFaxAPI_exit_unless_raised(self, exc_type) ==
    [self  |-> self,
     ret   |-> None,
     calls |-> IF exc_type = "none"
               THEN <<Call("fax_api_destroy", self.api_instance, None)>>
               ELSE <<>>]

\* __exit__(self, exc_type, exc_val, exc_tb) once self.disconnect() has
\* returned: fax_api_destroy(self.api_instance), the object having an
\* api_instance since __init__; returns None, so an exception raised inside
\* the with block goes on to the handler's except clause
PyFaxAPI_exit_destroy(self, exc_type) ==
    [self  |-> self,
     ret   |-> None,
     calls |-> <<Call("fax_api_destroy", self.api_instance, None)>>]

\* ---------------------------------------------------------------- state
VARIABLES
    sess,   \* SpecSession: the PyFaxAPI object the library client holds
    last,   \* SpecSession: the most recent method call on sess
    prev,   \* SpecSession: the call before the most recent connect, login,
            \* disconnect or job-control call
    args,   \* SpecSession: the arguments of the most recent submit or query call
    obj,    \* Spec: the PyFaxAPI objects on the heap, by identity
    live,   \* Spec: backend handles created and not yet destroyed
    req     \* Spec: each request worker's handler state

sessVars == <<sess, last, prev, args>>
restVars == <<obj, live, req>>
vars == <<sess, last, prev, args, obj, live, req>>

\* the arguments of a call that takes none of files, destinations, options
\* and queue_type
NoArgs ==
    [files |-> JNull, destinations |-> JNull, options |-> JNull, queue_type |-> "none",
     count |-> 0,       \* get_job_status: the jobs_count the backend had to report
     bk_ok |-> TRUE,    \* the value the backend call had to return
     bk_msg |-> "",     \* job control: the text the backend had to leave in error_msg
     bk_result |-> SubmissionResult(FALSE, None, None, None, 0),
                        \* send_fax: the FaxSubmissionResult the backend had to fill in
     exc |-> NoExc]    \* the exception the call raised

\* a freed (or never allocated) slot of the heap
NoObj == [api_instance |-> Null, connected |-> FALSE, logged_in |-> FALSE]

\* data=None, the default of create_api_response; in a response, the empty
\* object {} that `data or {}` puts in its place
NoData == [null |-> TRUE]

\* create_api_response(success, data, message, status_code); data is a
\* mapping (a record, or <<>> for an empty dict or list) or NoData
create_api_response(success, data, message, status_code) ==
    [success |-> success, message |-> message,
     data |-> IF DOMAIN data = {} \/ DOMAIN data = {"null"} THEN NoData ELSE data,
     status |-> status_code]
NoResp == create_api_response(FALSE, NoData, "", 0)

\* the handler's local `result` while fax_api.send_fax(...) has not returned
NoResult == [success |-> FALSE, error |-> ""]

\* a worker with no request in hand
IdleReq ==
    [pc      |-> "idle",    \* position in the handler
     ep      |-> "none",    \* the endpoint being served
     fax_api |-> Null,      \* the handler's local fax_api: an object identity
     job_id  |-> "",        \* the <job_id> of the URL
     queue_param |-> "",    \* get_fax_status: the lower-cased queue parameter
     qi      |-> 0,         \* get_job_info: queues searched so far
     found   |-> FALSE,     \* get_job_info: job_info is set
     held    |-> <<>>,      \* get_job_info: per queue searched, whether the query
                            \* succeeded and whether the backend reported the job
     oversize |-> FALSE,    \* send_fax: the body is larger than MAX_CONTENT_LENGTH
     form    |-> [files |-> <<>>, destinations_str |-> "", options_str |-> ""],
                            \* send_fax: request.files and request.form as received
     uploaded_files |-> <<>>,   \* send_fax: the paths of the files staged
     disk    |-> {},        \* send_fax: the staged paths that exist on disk
     result  |-> NoResult,  \* send_fax: the handler's local `result`
     unlinked |-> <<>>,     \* send_fax: per os.unlink of the clean-up loop so
                            \* far, whether it removed the file
     destinations |-> JNull,    \* send_fax: the parsed destinations
     options |-> JNull,     \* send_fax: the parsed options
     trace   |-> <<>>,      \* backend calls this request has issued, in order
     ndisc   |-> 0,         \* PyFaxAPI.disconnect() invocations of this request
     exc     |-> NoExc,    \* the exception propagating out of the with block
     pend    |-> NoResp,    \* the value of the return statement being executed
     resp    |-> NoResp]    \* the response delivered to the caller

\* --------------------------------------------------------- SpecSession
InitSession ==
    /\ sess = PyFaxAPI_init(1)
    /\ last = NoCall
    /\ prev = NoCall
    /\ args = NoArgs
    /\ obj = [o \in ObjIds |-> NoObj]
    /\ live = {}
    /\ req = [r \in Req |-> IdleReq]

Apply(op, r) ==
    /\ sess' = r.self
    /\ last' = Record(op, sess, r)
    /\ prev' = last
    /\ args' = NoArgs
    /\ UNCHANGED restVars

\* a call of send_fax or get_job_status: the arguments and the exception it
\* raised are kept beside the record of the call
ApplyArgs(op, a, r) ==
    /\ sess' = r.self
    /\ last' = Record(op, sess, r)
    /\ args' = [a EXCEPT !.exc = r.exc]
    /\ UNCHANGED prev
    /\ UNCHANGED restVars

CallConnect == \E bk \in BkOutcomes : Apply("connect", connect(sess, bk))
CallLogin ==
    \E u \in Usernames, bk \in BkOutcomes : Apply("login", login(sess, u, bk))
CallDisconnect == \E bk \in BkOutcomes : Apply("disconnect", disconnect(sess, bk))
CallKill ==
    \E j \in JobIds, bk \in BkOutcomes : Apply("kill_job", kill_job(sess, j, bk))
CallSuspend ==
    \E j \in JobIds, bk \in BkOutcomes : Apply("suspend_job", suspend_job(sess, j, bk))
CallResume ==
    \E j \in JobIds, bk \in BkOutcomes : Apply("resume_job", resume_job(sess, j, bk))
CallWait ==
    \E j \in JobIds, bk \in BkOutcomes : Apply("wait_for_job", wait_for_job(sess, j, bk))

\* the submit calls of the library client: a list of one staged file, a list
\* of zero, one or two destinations, and options that are absent (the
\* default None), empty, well typed, of a type the field does not take or
\* converts, or keyed by names that are not option fields
SessFiles == {JList(<<JStr("a.pdf")>>)}
SessDestinations ==
    {JList(<<>>), JList(<<JStr("+15551234567")>>),
     JList(<<JStr("+15551234567"), JStr("+15557654321")>>)}
SessOptions ==
    {JNull, JDict(<<>>),
     JDict(<<<<"coverComments", JStr("hi")>>, <<"useECM", JBool(TRUE)>>>>),
     JDict(<<<<"maxRetries", JStr("3")>>>>),
     JDict(<<<<"maxRetries", JIntWide(65536, 5)>>>>),
     JDict(<<<<"color", JInt(1)>>>>),
     JDict(<<<<"_fields_", JInt(1)>>>>),
     JDict(<<<<"_objects", JInt(1)>>>>),
     JDict(<<<<"__weakref__", JInt(1)>>>>),
     JDict(<<<<"__dict__", JDict(<<>>)>>>>),
     JDict(<<<<"vResolution", JInt(16777217)>>, <<"recipient", JInt(0)>>>>)}

\* the query results of the library client: a failure, no job, one and two
\* jobs, a negative count, and counts at and beyond the size of the array
SessQueryOutcomes ==
    {[ok |-> FALSE, count |-> 0, written |-> <<>>],
     [ok |-> FALSE, count |-> 2, written |-> <<JobInfo("7", None), JobInfo("42", "R")>>],
     [ok |-> TRUE, count |-> 0, written |-> <<>>],
     [ok |-> TRUE, count |-> 0 - 1, written |-> <<>>],
     [ok |-> TRUE, count |-> 1, written |-> <<JobInfo("42", "R")>>],
     [ok |-> TRUE, count |-> 2, written |-> <<JobInfo("7", None), JobInfo("42", "R")>>],
     [ok |-> TRUE, count |-> max_jobs, written |-> <<JobInfo("42", "R")>>],
     [ok |-> TRUE, count |-> max_jobs + 1, written |-> <<JobInfo("42", "R")>>]}

\* send_fax called with destinations from D and options from O; S[n] is what
\* the backend may answer to a submission of n destinations
CallSendFax(D, O, S) ==
    \E f \in SessFiles, d \in D, o \in O :
      \E bk \in S[PyLen(d)] :
        ApplyArgs("send_fax",
                  [NoArgs EXCEPT !.files = f, !.destinations = d, !.options = o,
                                 !.bk_ok = bk.ok, !.bk_result = bk.result],
                  send_fax(sess, f, d, o, bk))

CallGetJobStatus ==
    \E q \in QueueNames, bk \in SessQueryOutcomes :
        ApplyArgs("get_job_status", [NoArgs EXCEPT !.queue_type = q, !.count = bk.count, !.bk_ok = bk.ok],
                  get_job_status(sess, q, bk))

NextSession ==
    \/ CallConnect
    \/ CallLogin
    \/ CallDisconnect
    \/ CallKill
    \/ CallSuspend
    \/ CallResume
    \/ CallWait

SpecSession == InitSession /\ [][NextSession]_vars

\* ------------------------------------------------------------ SpecCall
\* The library client submits and queries on a Session in any of the states
\* connect() and login() can leave it in; neither call changes the Session.
SessionStates ==
    {[PyFaxAPI_init(1) EXCEPT !.connected = c, !.logged_in = l] : c, l \in BOOLEAN}

InitCall ==
    /\ sess \in SessionStates
    /\ last = NoCall
    /\ prev = NoCall
    /\ args = NoArgs
    /\ obj = [o \in ObjIds |-> NoObj]
    /\ live = {}
    /\ req = [r \in Req |-> IdleReq]

\* a backend that may answer anything to a submission
AnySendOutcome == [n \in 0..2 |-> SendOutcomes]

NextCall ==
    \/ CallSendFax(SessDestinations, SessOptions, AnySendOutcome)
    \/ CallGetJobStatus

SpecCall == InitCall /\ [][NextCall]_vars

\* ------------------------------------------ transport adapter (rest_api.py)
Endpoints ==
    {"health_check", "send_fax", "get_fax_status", "get_job_info",
     "kill_job", "suspend_job", "resume_job", "wait_for_job"}
ControlEndpoints == {"kill_job", "suspend_job", "resume_job", "wait_for_job"}

\* get_fax_status: queue_mapping
queue_mapping ==
    [send |-> "SEND_QUEUE", done |-> "DONE_QUEUE", recv |-> "RECV_QUEUE",
     archive |-> "ARCHIVE_QUEUE", document |-> "DOCUMENT_QUEUE",
     server |-> "SERVER_STATUS"]

\* the queue parameters a caller may send, and str.lower() on them
QueueParams == {"send", "done", "recv", "archive", "document", "server", "DONE", "inbox"}
Lower(q) == IF q = "DONE" THEN "done" ELSE q

\* queue_type.name.lower()
QueueLower(qn) ==
    CASE qn = "SEND_QUEUE" -> "send_queue"
      [] qn = "DONE_QUEUE" -> "done_queue"
      [] qn = "RECV_QUEUE" -> "recv_queue"
      [] qn = "ARCHIVE_QUEUE" -> "archive_queue"
      [] qn = "DOCUMENT_QUEUE" -> "document_queue"
      [] qn = "SERVER_STATUS" -> "server_status"

\* get_job_info: the queues searched, in order
SearchQueues == <<"SEND_QUEUE", "DONE_QUEUE", "ARCHIVE_QUEUE">>

\* what the backend may answer to fax_api_get_job_status
JobInfoSamples == {NullJobInfo, JobInfo("42", "R"), JobInfo("7", None)}
WrittenArrays == {<<>>} \cup {<<a>> : a \in JobInfoSamples}
                 \cup {<<JobInfo("7", None), JobInfo("42", "R")>>}
QueryOutcomes ==
    [ok : BOOLEAN, count : {0, 1, 2, max_jobs + 1}, written : WrittenArrays]

\* ALLOWED_EXTENSIONS
ALLOWED_EXTENSIONS == {"pdf", "ps", "txt", "tiff", "tif"}

\* the file names uploaded in this model, with '.' in filename,
\* filename.rsplit('.', 1)[1].lower() and secure_filename(filename) on them
FileNames == {"", "a.pdf", "my fax.TIF", "x.exe", "README"}
HasDot(filename) == filename \in {"a.pdf", "my fax.TIF", "x.exe"}
ExtLower(filename) ==
    CASE filename = "a.pdf" -> "pdf"
      [] filename = "my fax.TIF" -> "tif"
      [] filename = "x.exe" -> "exe"
secure_filename(filename) ==
    CASE filename = "my fax.TIF" -> "my_fax.TIF"
      [] OTHER -> filename

allowed_file(filename) == HasDot(filename) /\ ExtLower(filename) \in ALLOWED_EXTENSIONS

\* os.path.join(UPLOAD_FOLDER, f"{uuid.uuid4()}_{filename}"): the uuid of the
\* i-th uploaded file is written uuid<i>
StagedPath(i, filename) ==
    "/tmp/fax_uploads/uuid" \o ToString(i) \o "_" \o secure_filename(filename)

\* send_fax, "Save uploaded files": uploaded_files from file i on
RECURSIVE StageFrom(_, _)
StageFrom(files, i) ==
    IF i > Len(files) THEN <<>>
    ELSE IF files[i] # "" /\ allowed_file(files[i])
    THEN <<StagedPath(i, files[i])>> \o StageFrom(files, i + 1)
    ELSE StageFrom(files, i + 1)

\* json.loads on the form fields sent in this model: err is JSONDecodeError
ParseJSON(raw) ==
    CASE raw = "[]" -> [err |-> FALSE, v |-> JList(<<>>)]
      [] raw = "{}" -> [err |-> FALSE, v |-> JDict(<<>>)]
      [] raw = "null" -> [err |-> FALSE, v |-> JNull]
      [] raw = "5" -> [err |-> FALSE, v |-> JInt(5)]
      [] raw = "[7]" -> [err |-> FALSE, v |-> JList(<<JInt(7)>>)]
      [] raw = "\"ab\"" -> [err |-> FALSE, v |-> JStr("ab")]
      [] raw = "[\"+15551234567\"]" -> [err |-> FALSE, v |-> JList(<<JStr("+15551234567")>>)]
      [] raw = "[\"+15551234567\", \"+15557654321\"]" ->
            [err |-> FALSE, v |-> JList(<<JStr("+15551234567"), JStr("+15557654321")>>)]
      [] raw = "{\"coverComments\": \"hi\", \"useECM\": true}" ->
            [err |-> FALSE,
             v |-> JDict(<<<<"coverComments", JStr("hi")>>, <<"useECM", JBool(TRUE)>>>>)]
      [] raw = "{\"maxRetries\": \"3\"}" ->
            [err |-> FALSE, v |-> JDict(<<<<"maxRetries", JStr("3")>>>>)]
      [] raw = "{\"color\": 1}" -> [err |-> FALSE, v |-> JDict(<<<<"color", JInt(1)>>>>)]
      [] raw = "{\"_objects\": 1}" ->
            [err |-> FALSE, v |-> JDict(<<<<"_objects", JInt(1)>>>>)]
      [] raw = "[1]" -> [err |-> FALSE, v |-> JList(<<JInt(1)>>)]
      [] OTHER -> [err |-> TRUE, v |-> JNull]

\* the submit requests of this model: the uploaded file names, and the
\* destinations and options form fields
FileLists ==
    {<<>>, <<"">>, <<"x.exe">>, <<"README">>, <<"a.pdf">>, <<"a.pdf", "x.exe">>,
     <<"a.pdf", "my fax.TIF">>}
DestinationStrings ==
    {"[]", "[+1555", "[\"+15551234567\"]", "[\"+15551234567\", \"+15557654321\"]",
     "[7]", "5", "\"ab\""}
OptionStrings ==
    {"{}", "{useECM", "null", "{\"coverComments\": \"hi\", \"useECM\": true}",
     "{\"maxRetries\": \"3\"}", "{\"color\": 1}", "{\"_objects\": 1}", "[1]"}
SendInputs ==
    [files : FileLists, destinations_str : DestinationStrings, options_str : OptionStrings]

\* send_fax up to its with statement: the response returned early, or NoResp
\* and the locals the with block starts from
SendPrologue(in) ==
    LET d == ParseJSON(in.destinations_str)
        o == ParseJSON(in.options_str)
        uploaded == StageFrom(in.files, 1)
        bad(message) == [resp |-> create_api_response(FALSE, NoData, message, 400),
                         uploaded_files |-> <<>>, destinations |-> JNull, options |-> JNull]
    IN  IF in.files = <<>> THEN bad("No files provided")
        ELSE IF \A i \in 1..Len(in.files) : in.files[i] = "" THEN bad("No files selected")
        ELSE IF d.err THEN bad("Invalid destinations format")
        ELSE IF ~Truthy(d.v) THEN bad("No destinations specified")
        ELSE IF o.err THEN bad("Invalid options format")
        ELSE IF uploaded = <<>>
        THEN bad("No valid files uploaded")
        ELSE [resp |-> NoResp, uploaded_files |-> uploaded,
              destinations |-> d.v, options |-> o.v]

\* str(e) in the except clause of a handler
ExcText(e) == e.text

\* what PyFaxAPI(HYLAFAX_HOST) may raise: _find_library finds no library,
\* ctypes.CDLL cannot load the file found, _setup_function_signatures
\* misses a function in the library loaded
ConstructorFailures ==
    {Raise("FileNotFoundError", "Could not find libfaxapi shared library"),
     Raise("OSError", "./libfaxapi.so: file too short"),
     Raise("AttributeError", "./libfaxapi.so: undefined symbol: fax_api_create")}

\* @app.errorhandler(413)
too_large == create_api_response(FALSE, NoData, "File too large", 413)

\* werkzeug's RequestEntityTooLarge, raised where the handler first reads
\* the body of a request larger than MAX_CONTENT_LENGTH
RequestEntityTooLarge ==
    Raise("RequestEntityTooLarge",
          "413 Request Entity Too Large: The data value transmitted exceeds the capacity limit.")

\* the backend's fax_api_create: a handle that is not live
FreshHandles == Handles \ live

\* one session object kept for all workers
SharedObject(r) == 1

\* PyFaxAPI(HYLAFAX_HOST) in worker r's handler: a new object on every call,
\* named after the worker (a worker references one object at a time)
NewObject(r) == r

\* the trace entries of the backend calls `calls`, with the backend's answer
Log(calls, ok) ==
    [i \in 1..Len(calls) |->
        [fn |-> calls[i].fn, h |-> calls[i].h, ok |-> ok, alive |-> calls[i].h \in live]]

Self(r) == obj[req[r].fax_api]

\* a handler that goes on to login whatever connect() returned
AfterConnectUnchecked(ep, success) == IF ep = "health_check" THEN "exit" ELSE "login"

\* where the handler goes after fax_api.connect() returned success
AfterConnect(ep, success) ==
    IF ~success THEN "exit" ELSE IF ep = "health_check" THEN "exit" ELSE "login"

\* where the handler goes after fax_api.login() returned success
AfterLogin(success) == IF success THEN "op" ELSE "exit"

\* a search loop whose break leaves only the inner loop
SearchEveryQueue(found, searched) == searched < Len(SearchQueues)

\* get_job_info: whether the search loop goes on after a queue was searched
SearchGoesOn(found, searched) == ~found /\ searched < Len(SearchQueues)

\* the first job of `jobs` whose job_id is job_id, as an index (0: none)
FirstMatch(jobs, job_id) ==
    IF \E i \in 1..Len(jobs) : jobs[i].job_id = job_id
    THEN CHOOSE i \in 1..Len(jobs) :
            /\ jobs[i].job_id = job_id
            /\ \A j \in 1..(i - 1) : jobs[j].job_id # job_id
    ELSE 0

\* a request arrives and the handler runs up to its with statement
Receive(r, eps, qps, sends) ==
    /\ req[r].pc = "idle"
    /\ \E ep \in eps :
        \/ /\ ep = "get_fax_status"
           /\ \E q \in qps :
                LET queue_param == Lower(q)
                IN  IF queue_param \notin DOMAIN queue_mapping
                    THEN req' = [req EXCEPT ![r] = [@ EXCEPT
                            !.pc = "done", !.ep = ep, !.queue_param = queue_param,
                            !.resp = create_api_response(FALSE, NoData,
                                        "Invalid queue type", 400)]]
                    ELSE req' = [req EXCEPT ![r] = [@ EXCEPT
                            !.pc = "enter", !.ep = ep, !.queue_param = queue_param]]
        \/ /\ ep = "health_check"
           /\ req' = [req EXCEPT ![r] = [@ EXCEPT !.pc = "enter", !.ep = ep]]
        \/ /\ ep = "send_fax"
           /\ \E in \in sends :
                LET p == SendPrologue(in)
                IN  req' = [req EXCEPT ![r] = [@ EXCEPT
                        !.pc = IF p.resp = NoResp THEN "enter" ELSE "done",
                        !.ep = ep,
                        !.resp = p.resp,
                        !.form = in,
                        !.uploaded_files = p.uploaded_files,
                        !.disk = {p.uploaded_files[i] : i \in 1..Len(p.uploaded_files)},
                        !.destinations = p.destinations,
                        !.options = p.options]]
        \/ \* a body larger than MAX_CONTENT_LENGTH: reading request.files
           \* fails, answered by the 413 error handler or, the read being
           \* inside the handler's try, by its except clause
           /\ ep = "send_fax"
           /\ \/ req' = [req EXCEPT ![r] = [@ EXCEPT
                            !.pc = "done", !.ep = ep, !.oversize = TRUE,
                            !.resp = too_large]]
              \/ req' = [req EXCEPT ![r] = [@ EXCEPT
                            !.pc = "done", !.ep = ep, !.oversize = TRUE,
                            !.exc = RequestEntityTooLarge,
                            !.resp = create_api_response(FALSE, NoData,
                                        ExcText(RequestEntityTooLarge), 500)]]
        \/ /\ ep \in ControlEndpoints \cup {"get_job_info"}
           /\ \E j \in JobIds :
                req' = [req EXCEPT ![r] = [@ EXCEPT
                            !.pc = "enter", !.ep = ep, !.job_id = j]]
    /\ UNCHANGED <<obj, live, sessVars>>

\* with PyFaxAPI(HYLAFAX_HOST) as fax_api: __init__ and __enter__
Enter(r) ==
    /\ req[r].pc = "enter"
    /\ \/ \* the constructor raises: no object, no handle; except Exception
          /\ \E e \in ConstructorFailures :
                req' = [req EXCEPT ![r] = [@ EXCEPT
                    !.pc = "done",
                    !.exc = e,
                    !.resp = create_api_response(FALSE,
                                IF req[r].ep = "health_check" THEN [status |-> "error"]
                                ELSE NoData,
                                ExcText(e), 500)]]
          /\ UNCHANGED <<obj, live>>
       \/ \E h \in FreshHandles :
          /\ obj' = [obj EXCEPT ![NewObject(r)] = PyFaxAPI_init(h)]
          /\ live' = live \cup {h}
          /\ req' = [req EXCEPT ![r] = [@ EXCEPT
                !.pc = "connect", !.fax_api = NewObject(r),
                !.trace = Append(@, [fn |-> "fax_api_create", h |-> h, ok |-> TRUE,
                                     alive |-> TRUE])]]
    /\ UNCHANGED sessVars

\* a connect or login failure answered as a caller error
UnavailableAsCallerError(data, message) ==
    create_api_response(FALSE, data, message, 400)

\* the response of a handler to a failed fax_api.connect() or fax_api.login()
Unavailable(data, message) == create_api_response(FALSE, data, message, 503)

\* success, error = fax_api.connect()
Connect(r, B) ==
    /\ req[r].pc = "connect"
    /\ \E bk \in B :
        LET m == connect(Self(r), bk)
            success == m.ret[1]
            error == m.ret[2]
            ep == req[r].ep
        IN  /\ obj' = [obj EXCEPT ![req[r].fax_api] = m.self]
            /\ req' = [req EXCEPT ![r] = [@ EXCEPT
                  !.pc = AfterConnect(ep, success),
                  !.trace = @ \o Log(m.calls, bk.ok),
                  !.pend =
                    IF ep = "health_check"
                    THEN IF success
                         THEN create_api_response(TRUE, [status |-> "healthy"],
                                    "HylaFAX server is reachable", 200)
                         ELSE Unavailable([status |-> "unhealthy"],
                                    "Cannot connect to HylaFAX: " \o error)
                    ELSE IF success THEN @
                         ELSE Unavailable(NoData, "Connection failed: " \o error)]]
    /\ UNCHANGED <<live, sessVars>>

\* success, error = fax_api.login()
Login(r, B) ==
    /\ req[r].pc = "login"
    /\ \E bk \in B :
        LET m == login(Self(r), "", bk)
            success == m.ret[1]
            error == m.ret[2]
        IN  /\ obj' = [obj EXCEPT ![req[r].fax_api] = m.self]
            /\ req' = [req EXCEPT ![r] = [@ EXCEPT
                  !.pc = AfterLogin(success),
                  !.trace = @ \o Log(m.calls, bk.ok),
                  !.pend = IF success THEN @
                           ELSE Unavailable(NoData, "Login failed: " \o error)]]
    /\ UNCHANGED <<live, sessVars>>

\* the message of a successful job-control endpoint
ControlDone(ep) ==
    CASE ep = "kill_job" -> "Job killed successfully"
      [] ep = "suspend_job" -> "Job suspended successfully"
      [] ep = "resume_job" -> "Job resumed successfully"
      [] ep = "wait_for_job" -> "Job completed successfully"

\* the PyFaxAPI method a job-control endpoint calls
ControlMethod(ep, self, job_id, bk) ==
    CASE ep = "kill_job" -> kill_job(self, job_id, bk)
      [] ep = "suspend_job" -> suspend_job(self, job_id, bk)
      [] ep = "resume_job" -> resume_job(self, job_id, bk)
      [] ep = "wait_for_job" -> wait_for_job(self, job_id, bk)

\* kill_job, suspend_job, resume_job, wait_for_job: the call and the return
Control(r, B) ==
    /\ req[r].pc = "op"
    /\ req[r].ep \in ControlEndpoints
    /\ \E bk \in B :
        LET m == ControlMethod(req[r].ep, Self(r), req[r].job_id, bk)
            success == m.ret[1]
            error == m.ret[2]
        IN  /\ obj' = [obj EXCEPT ![req[r].fax_api] = m.self]
            /\ req' = [req EXCEPT ![r] = [@ EXCEPT
                  !.pc = "exit",
                  !.trace = @ \o Log(m.calls, bk.ok),
                  !.pend = IF success
                           THEN create_api_response(TRUE, [job_id |-> req[r].job_id],
                                    ControlDone(req[r].ep), 200)
                           ELSE create_api_response(FALSE, NoData, error, 400)]]
    /\ UNCHANGED <<live, sessVars>>

\* os.unlink(filepath) on a disk holding the paths `disk`. removed: the call
\* removed the file; otherwise it raised OSError (the path is a directory, is
\* immutable, is gone), which the clean-up loop passes over
os_unlink(filepath, disk, removed) == IF removed THEN disk \ {filepath} ELSE disk
UnlinkOutcomes == BOOLEAN

\* send_fax, `for filepath in uploaded_files`: whether the clean-up loop has
\* a file to go on with after n files
CleanUpGoesOn(uploaded_files, n) == n < Len(uploaded_files)

\* send_fax: the return statement after the clean-up loop
SendResponse(result) ==
    IF result.success
    THEN create_api_response(TRUE,
            [job_id |-> result.job_id, group_id |-> result.group_id,
             total_pages |-> result.total_pages],
            "Fax submitted successfully", 200)
    ELSE create_api_response(FALSE, NoData, result.error, 400)

\* send_fax: result = fax_api.send_fax(uploaded_files, destinations, options);
\* a call that raises leaves the with block at once
Send(r, S) ==
    /\ req[r].pc = "op"
    /\ req[r].ep = "send_fax"
    /\ \E bk \in S :
        LET files == JList([i \in 1..Len(req[r].uploaded_files) |->
                                JStr(req[r].uploaded_files[i])])
            m == send_fax(Self(r), files, req[r].destinations, req[r].options, bk)
            goesOn == m.exc = NoExc /\ CleanUpGoesOn(req[r].uploaded_files, 0)
        IN  /\ obj' = [obj EXCEPT ![req[r].fax_api] = m.self]
            /\ req' = [req EXCEPT ![r] = [@ EXCEPT
                  !.pc = IF goesOn THEN "cleanup" ELSE "exit",
                  !.trace = @ \o Log(m.calls, bk.ok),
                  !.exc = m.exc,
                  !.result = IF m.exc # NoExc THEN @ ELSE m.ret,
                  !.pend = IF m.exc # NoExc \/ goesOn THEN @ ELSE SendResponse(m.ret)]]
    /\ UNCHANGED <<live, sessVars>>

\* send_fax, "Clean up uploaded files": one turn of the loop, os.unlink of the
\* next path of uploaded_files with OSError passed over; after the last
\* turn, the return statement
CleanUp(r, U) ==
    /\ req[r].pc = "cleanup"
    /\ \E removed \in U :
        LET n == Len(req[r].unlinked) + 1
            filepath == req[r].uploaded_files[n]
            goesOn == CleanUpGoesOn(req[r].uploaded_files, n)
        IN  req' = [req EXCEPT ![r] = [@ EXCEPT
                  !.pc = IF goesOn THEN "cleanup" ELSE "exit",
                  !.disk = os_unlink(filepath, @, removed),
                  !.unlinked = Append(@, removed),
                  !.pend = IF goesOn THEN @ ELSE SendResponse(req[r].result)]]
    /\ UNCHANGED <<obj, live, sessVars>>

\* get_fax_status: jobs = fax_api.get_job_status(queue_type) and the return
Status(r, Q) ==
    /\ req[r].pc = "op"
    /\ req[r].ep = "get_fax_status"
    /\ \E bk \in Q :
        LET m == get_job_status(Self(r), queue_mapping[req[r].queue_param], bk)
        IN  /\ obj' = [obj EXCEPT ![req[r].fax_api] = m.self]
            /\ req' = [req EXCEPT ![r] = [@ EXCEPT
                  !.pc = "exit",
                  !.trace = @ \o Log(m.calls, bk.ok),
                  !.exc = m.exc,
                  !.pend = IF m.exc # NoExc THEN @
                           ELSE create_api_response(TRUE,
                                  [queue |-> req[r].queue_param, jobs |-> m.ret,
                                   count |-> Len(m.ret)],
                                  "Retrieved " \o ToString(Len(m.ret)) \o " jobs from "
                                      \o req[r].queue_param \o " queue", 200)]]
    /\ UNCHANGED <<live, sessVars>>

\* job_info = job; job_info['queue'] = queue_type.name.lower()
WithQueue(job, queue_name) ==
    [k \in DOMAIN job \cup {"queue"} |-> IF k = "queue" THEN queue_name ELSE job[k]]

\* whether job_id is among the entries the backend reported for one query
Reported(bk, job_id) ==
    \E i \in 0..(bk.count - 1) : ArrayAt(bk.written, i)["jobId"] = job_id

\* get_job_info: one turn of the loop over the queues, and the return
Lookup(r, Q) ==
    /\ req[r].pc = "op"
    /\ req[r].ep = "get_job_info"
    /\ \E bk \in Q :
        LET queue_type == SearchQueues[req[r].qi + 1]
            m == get_job_status(Self(r), queue_type, bk)
            at == IF m.exc # NoExc THEN 0 ELSE FirstMatch(m.ret, req[r].job_id)
            found == at # 0
            searched == req[r].qi + 1
            goesOn == m.exc = NoExc /\ SearchGoesOn(found, searched)
        IN  /\ obj' = [obj EXCEPT ![req[r].fax_api] = m.self]
            /\ req' = [req EXCEPT ![r] = [@ EXCEPT
                  !.pc = IF goesOn THEN "op" ELSE "exit",
                  !.qi = searched,
                  !.found = found,
                  !.held = Append(@, [ok |-> bk.ok,
                                      present |-> bk.ok /\ Reported(bk, req[r].job_id)]),
                  !.trace = @ \o Log(m.calls, bk.ok),
                  !.exc = m.exc,
                  !.pend =
                    IF m.exc # NoExc \/ goesOn THEN @
                    ELSE IF found
                    THEN create_api_response(TRUE,
                            WithQueue(m.ret[at], QueueLower(queue_type)),
                            "Job found", 200)
                    ELSE create_api_response(FALSE, NoData, "Job not found", 404)]]
    /\ UNCHANGED <<live, sessVars>>

\* leaving the with block, __exit__: self.disconnect()
ExitDisconnect(r, B) ==
    /\ req[r].pc = "exit"
    /\ \E bk \in B :
        LET m == disconnect(Self(r), bk)
        IN  /\ obj' = [obj EXCEPT ![req[r].fax_api] = m.self]
            /\ req' = [req EXCEPT ![r] = [@ EXCEPT
                  !.pc = "destroy",
                  !.ndisc = @ + 1,
                  !.trace = @ \o Log(m.calls, bk.ok)]]
    /\ UNCHANGED <<live, sessVars>>

\* __exit__: fax_api_destroy(self.api_instance); then the handler's return,
\* or its except clause when an exception left the with block
ExitDestroy(r) ==
    /\ req[r].pc = "destroy"
    /\ LET m == PyFaxAPI_exit_destroy(Self(r), req[r].exc.type)
       IN  /\ obj' = [obj EXCEPT ![req[r].fax_api] = NoObj]
           /\ live' = live \ {m.calls[i].h : i \in 1..Len(m.calls)}
           /\ req' = [req EXCEPT ![r] = [@ EXCEPT
                 !.pc = "done",
                 !.fax_api = Null,
                 !.trace = @ \o Log(m.calls, TRUE),
                 !.resp = IF req[r].exc # NoExc
                          THEN create_api_response(FALSE, NoData, ExcText(req[r].exc), 500)
                          ELSE req[r].pend]]
    /\ UNCHANGED sessVars

\* the response has been sent; the worker is free for the next request
Reset(r) ==
    /\ req[r].pc = "done"
    /\ req' = [req EXCEPT ![r] = IdleReq]
    /\ UNCHANGED <<obj, live, sessVars>>

Init ==
    /\ sess = PyFaxAPI_init(1)
    /\ last = NoCall
    /\ prev = NoCall
    /\ args = NoArgs
    /\ obj = [o \in ObjIds |-> NoObj]
    /\ live = {}
    /\ req = [r \in Req |-> IdleReq]

\* one worker: requests are served one after the other
Next ==
    \/ Receive(1, Endpoints, QueueParams, SendInputs)
    \/ Enter(1)
    \/ Connect(1, BkOutcomes)
    \/ Login(1, BkOutcomes)
    \/ Control(1, BkOutcomes)
    \/ Send(1, SendOutcomes)
    \/ CleanUp(1, UnlinkOutcomes)
    \/ Status(1, QueryOutcomes)
    \/ Lookup(1, QueryOutcomes)
    \/ ExitDisconnect(1, BkOutcomes)
    \/ ExitDestroy(1)
    \/ Reset(1)

Spec == Init /\ [][Next]_vars

\* NReq workers serve requests concurrently, interleaved at the backend
\* calls. The backend's answers are drawn without message text and from
\* three query results: a failure, no job, the job looked for.
PlainOutcomes == [ok : BOOLEAN, msg : {""}]
ConcQueryOutcomes ==
    {[ok |-> FALSE, count |-> 0, written |-> <<>>],
     [ok |-> TRUE, count |-> 0, written |-> <<>>],
     [ok |-> TRUE, count |-> 1, written |-> <<JobInfo("42", "R")>>]}
ConcQueueParams == {"send", "inbox"}
ConcSendInputs ==
    {[files |-> <<"a.pdf">>, destinations_str |-> "[\"+15551234567\"]",
      options_str |-> o] : o \in {"{}", "{\"maxRetries\": \"3\"}"}}
ConcSendOutcomes ==
    {[ok |-> TRUE, result |-> SubmissionResult(TRUE, "42", None, None, 3)],
     [ok |-> FALSE, result |-> SubmissionResult(FALSE, None, None, "rejected", 0)]}

NextConc ==
    \E r \in Req :
        \/ Receive(r, Endpoints, ConcQueueParams, ConcSendInputs)
        \/ Enter(r)
        \/ Connect(r, PlainOutcomes)
        \/ Login(r, PlainOutcomes)
        \/ Control(r, PlainOutcomes)
        \/ Send(r, ConcSendOutcomes)
        \/ CleanUp(r, UnlinkOutcomes)
        \/ Status(r, ConcQueryOutcomes)
        \/ Lookup(r, ConcQueryOutcomes)
        \/ ExitDisconnect(r, PlainOutcomes)
        \/ ExitDestroy(r)
        \/ Reset(r)

SpecConc == Init /\ [][NextConc]_vars

\* --------------------------------------------------------- SpecBackend
\* The library client against a backend that reports as its interface
\* describes: an error message is written only by a call that fails, and a
\* submission carries a group identifier exactly when it has more than one
\* destination.
ConformingOutcomes == {bk \in BkOutcomes : bk.ok => bk.msg = ""}

GroupConforms(n, bk) ==
    /\ n = 1 => bk.result.groupId \in {None, ""}
    /\ (n > 1 /\ bk.ok /\ bk.result.success) => bk.result.groupId \notin {None, ""}

ConformingSendOutcome == [n \in 0..2 |-> {bk \in SendOutcomes : GroupConforms(n, bk)}]

\* kill_job, suspend_job, resume_job or wait_for_job, the backend answering from B
CallControl(B) ==
    \E ep \in ControlEndpoints, j \in JobIds, bk \in B :
        LET m == ControlMethod(ep, sess, j, bk)
        IN  /\ sess' = m.self
            /\ last' = Record(ep, sess, m)
            /\ prev' = last
            /\ args' = [NoArgs EXCEPT !.bk_ok = bk.ok, !.bk_msg = bk.msg]
            /\ UNCHANGED restVars

NextBackend ==
    \/ CallControl(ConformingOutcomes)
    \/ CallSendFax(SessDestinations, {JNull, JDict(<<>>)}, ConformingSendOutcome)

SpecBackend == InitCall /\ [][NextBackend]_vars

\* ------------------------------------------- claims about one Session
ControlOps == {"kill_job", "suspend_job", "resume_job", "wait_for_job"}
Authenticated(s) == s.connected /\ s.logged_in

\* C1: in every state reached by connect, login and disconnect calls on one
\* Session, whatever the backend answers, logged_in implies connected.
C1_AuthenticatedImpliesConnected == sess.logged_in => sess.connected

\* C2: login() called while connected is false returns failure, issues no
\* backend login call, and leaves logged_in false.
C2_LoginUnconnectedFailsFast ==
    (last.op = "login" /\ ~last.pre.connected)
        => (last.calls = <<>> /\ last.ret[1] = FALSE /\ ~sess.logged_in)

\* C3: kill, suspend, resume and wait on a session that is not Authenticated
\* return an error result and issue no backend call.
C3_ControlRequiresAuthenticated ==
    (last.op \in ControlOps /\ ~Authenticated(last.pre))
        => (last.calls = <<>> /\ last.ret[1] = FALSE)

\* C8: two consecutive disconnect() calls both return success, and afterwards
\* connected and logged_in are both false.
C8_DisconnectTwice ==
    (prev.op = "disconnect" /\ last.op = "disconnect")
        => (prev.ret = TRUE /\ last.ret = TRUE
            /\ ~sess.connected /\ ~sess.logged_in)

\* C9: one disconnect() from any reachable state leaves connected and
\* logged_in false; when the session was not connected it issues no backend
\* call and returns success.
C9_DisconnectClearsBoth ==
    last.op = "disconnect"
        => /\ ~sess.connected
           /\ ~sess.logged_in
           /\ ~last.pre.connected => (last.calls = <<>> /\ last.ret = TRUE)

\* C10: a connect() the backend fails leaves the Session as it was before
\* the call.
C10_FailedConnectKeepsState ==
    (last.op = "connect" /\ last.ret[1] = FALSE) => sess = last.pre

\* ------------------------------------------ claims about the requests
OpFns ==
    {"fax_api_send_fax", "fax_api_get_job_status", "fax_api_kill_job",
     "fax_api_suspend_job", "fax_api_resume_job", "fax_api_wait_for_job"}

\* the positions of trace t that call fn, and those that call it with success
At(t, fns) == {i \in 1..Len(t) : t[i].fn \in fns}
OkAt(t, fns) == {i \in At(t, fns) : t[i].ok}
Count(t, fn) == Cardinality(At(t, {fn}))
NOps(t) == Cardinality(At(t, OpFns))
Opened(r) == Count(req[r].trace, "fax_api_create") = 1
Done(r) == req[r].pc = "done"

\* C4: on every exit path of a request that opened a Session, disconnect() is
\* invoked and the handle is destroyed exactly once, and no backend call is
\* made on the handle after it is destroyed.
C4_TeardownExactlyOnce ==
    \A r \in Req :
        LET t == req[r].trace
            created == Count(t, "fax_api_create")
            destroyed == Count(t, "fax_api_destroy")
        IN  /\ created <= 1
            /\ destroyed <= created
            /\ req[r].ndisc <= created
            /\ Done(r) => (destroyed = created /\ req[r].ndisc = created)
            /\ \A i \in 1..Len(t) : t[i].alive
            /\ \A i \in At(t, {"fax_api_destroy"}) : i = Len(t)

\* C4 witness: a request that left the with block by an exception, torn down
C4_Witness ==
    \E r \in Req :
        /\ Done(r)
        /\ req[r].exc # NoExc
        /\ req[r].resp.status = 500
        /\ Count(req[r].trace, "fax_api_destroy") = 1
        /\ req[r].ndisc = 1

\* C5: a submit, query or control call is issued only after a connect and
\* then a login that both succeeded on the same Session; no login follows a
\* failed connect and no operation follows a failed login.
C5_OperateOnlyAfterConnectThenLogin ==
    \A r \in Req :
        LET t == req[r].trace
        IN  /\ \A i \in At(t, {"fax_api_login"}) :
                /\ \E j \in OkAt(t, {"fax_api_connect"}) : j < i /\ t[j].h = t[i].h
                /\ \A j \in At(t, {"fax_api_connect"}) : j < i => t[j].ok
            /\ \A i \in At(t, OpFns) :
                /\ \E j \in OkAt(t, {"fax_api_connect"}), k \in OkAt(t, {"fax_api_login"}) :
                        j < k /\ k < i /\ t[j].h = t[i].h /\ t[k].h = t[i].h
                /\ \A j \in At(t, {"fax_api_connect", "fax_api_login"}) : j < i => t[j].ok

\* C5 witness: a submit request that reached the backend's submit call
C5_Witness ==
    /\ Done(1)
    /\ req[1].ep = "send_fax"
    /\ Count(req[1].trace, "fax_api_send_fax") = 1

\* C6 as stated: every request that opens a Session performs connect and
\* login and issues exactly one operation: never none after a successful
\* login, never more than one.
C6_ExactlyOneOperation ==
    \A r \in Req :
        (Done(r) /\ Opened(r)) =>
            LET t == req[r].trace
            IN  /\ Count(t, "fax_api_connect") = 1
                /\ OkAt(t, {"fax_api_connect"}) # {} => Count(t, "fax_api_login") = 1
                /\ NOps(t) <= 1
                /\ OkAt(t, {"fax_api_login"}) # {} => NOps(t) = 1

\* C6 amended: the submit, status, kill, suspend, resume and wait endpoints
\* connect, log in if the connect succeeded, and issue at most one operation:
\* exactly one after a successful login, except that a submit whose arguments
\* raise before the backend is reached issues none. The job-lookup endpoint
\* issues one to three queries after a successful login, going on to the next
\* queue only while the job has not been found. The health endpoint connects
\* only: no login, no operation.
C6_OperationsPerEndpoint ==
    \A r \in Req :
        LET t == req[r].trace
            connected == OkAt(t, {"fax_api_connect"}) # {}
            loggedIn == OkAt(t, {"fax_api_login"}) # {}
            ep == req[r].ep
        IN  /\ (req[r].pc = "op" /\ ep = "get_job_info" /\ req[r].qi > 0) => ~req[r].found
            /\ (Done(r) /\ Opened(r)) =>
                /\ Count(t, "fax_api_connect") = 1
                /\ ep = "health_check" => (Count(t, "fax_api_login") = 0 /\ NOps(t) = 0)
                /\ ep # "health_check" =>
                        Count(t, "fax_api_login") = IF connected THEN 1 ELSE 0
                /\ ~loggedIn => NOps(t) = 0
                /\ (loggedIn /\ ep \in ControlEndpoints \cup {"get_fax_status"}) =>
                        NOps(t) = 1
                /\ (loggedIn /\ ep = "send_fax") =>
                        NOps(t) = IF req[r].exc = NoExc THEN 1 ELSE 0
                /\ (loggedIn /\ ep = "get_job_info") =>
                        /\ NOps(t) \in 1..Len(SearchQueues)
                        /\ NOps(t) = req[r].qi
                        /\ (req[r].exc = NoExc /\ ~req[r].found) =>
                                NOps(t) = Len(SearchQueues)

\* C6 witness: a job lookup that found the job in the second queue searched
C6_Witness ==
    \E r \in Req :
        /\ Done(r)
        /\ req[r].ep = "get_job_info"
        /\ req[r].found
        /\ NOps(req[r].trace) = 2
        /\ req[r].resp.status = 200

\* the workers with a request in hand whose response is not yet ready
InFlight == {r \in Req : req[r].pc \notin {"idle", "done"}}

\* C7: with several requests in flight, each owns its Session and handle: no
\* two requests hold the same object or the same handle, every backend call
\* of a request is on its own live handle, the live handles never outnumber
\* the requests in flight, and a step that is not a request's own leaves that
\* request's Session as it was.
C7_OwnSessionState ==
    /\ \A r1, r2 \in Req :
        (r1 # r2 /\ req[r1].fax_api # Null /\ req[r2].fax_api # Null) =>
            /\ req[r1].fax_api # req[r2].fax_api
            /\ obj[req[r1].fax_api].api_instance # obj[req[r2].fax_api].api_instance
    /\ \A r \in Req :
        /\ \A i \in 1..Len(req[r].trace) :
            req[r].trace[i].alive /\ req[r].trace[i].h = req[r].trace[1].h
        /\ req[r].fax_api # Null =>
            /\ obj[req[r].fax_api].api_instance = req[r].trace[1].h
            /\ obj[req[r].fax_api].api_instance \in live
    /\ Cardinality(live) <= Cardinality(InFlight)
C7_OwnSessionStep ==
    \A r \in Req :
        (req[r].fax_api # Null /\ req'[r] = req[r]) =>
            obj'[req[r].fax_api] = obj[req[r].fax_api]
C7_SessionPerRequest == [](C7_OwnSessionState) /\ [][C7_OwnSessionStep]_vars

\* C7 witness: two requests in flight, each authenticated on its own handle
C7_Witness ==
    /\ Cardinality(live) = 2
    /\ \A r \in {1, 2} :
        /\ req[r].pc = "op"
        /\ Authenticated(obj[req[r].fax_api])

\* ------------------------------------- claims about submit and query calls
\* C11: a submit with zero destinations returns a failure result and issues
\* no backend call, whatever the state of the Session and of the backend.
C11_ZeroDestinationsRejected ==
    (last.op = "send_fax" /\ PyLen(args.destinations) = 0)
        => /\ last.calls = <<>>
           /\ args.exc = NoExc
           /\ ~last.ret.success

\* ---------------------------------------- claims about the submit endpoint
\* the submit request of worker r whose fax_api.send_fax(...) call has returned
SubmitReturned(r) ==
    /\ req[r].ep = "send_fax"
    /\ req[r].pc \in {"exit", "destroy", "done"}
    /\ req[r].exc = NoExc
    /\ OkAt(req[r].trace, {"fax_api_login"}) # {}

\* C12: once the submit call of a send request has returned and the clean-up
\* after it has run, with success or with failure of the submission, none of
\* the files the request staged is left on disk.
C12_StagedFilesDeleted ==
    \A r \in Req :
        SubmitReturned(r) =>
            /\ req[r].uploaded_files # <<>>
            /\ \A i \in 1..Len(req[r].uploaded_files) :
                    req[r].uploaded_files[i] \notin req[r].disk

\* What does hold of the clean-up C12 is about: once the submit call has
\* returned, os.unlink has been called once on every staged file, in staging
\* order, before the handler answers; a file left on disk is one whose unlink
\* failed, and the response is the one the submission result alone decides.
C12_EveryStagedFileUnlinkedOnce ==
    \A r \in Req :
        /\ req[r].pc = "cleanup" =>
                /\ Len(req[r].unlinked) < Len(req[r].uploaded_files)
                /\ req[r].exc = NoExc
                /\ Count(req[r].trace, "fax_api_send_fax") = 1
        /\ SubmitReturned(r) =>
                /\ req[r].uploaded_files # <<>>
                /\ Len(req[r].unlinked) = Len(req[r].uploaded_files)
                /\ \A i \in 1..Len(req[r].uploaded_files) :
                        req[r].uploaded_files[i] \in req[r].disk => ~req[r].unlinked[i]
                /\ req[r].pend = SendResponse(req[r].result)
                /\ Done(r) => req[r].resp = req[r].pend

\* C13: a get_job_status call that returns, returns at most max_jobs (1000)
\* records, for every queue type and every count the backend reports.
C13_AtMostMaxJobs ==
    (last.op = "get_job_status" /\ args.exc = NoExc) => Len(last.ret) <= 1000

\* C13 witness: the backend reported exactly 1000 jobs and all were returned
C13_Witness ==
    /\ last.op = "get_job_status"
    /\ args.exc = NoExc
    /\ args.count = 1000
    /\ Len(last.ret) = 1000

\* C14: when the backend reports more jobs than the bound, get_job_status
\* returns a sequence of at most 1000 records and raises no exception.
C14_TruncatesBeyondBound ==
    (last.op = "get_job_status" /\ last.calls # <<>> /\ args.count > 1000)
        => /\ args.exc = NoExc
           /\ Len(last.ret) <= 1000

\* C15: get_job_status returns the empty sequence and raises nothing when the
\* Session is not connected and logged in (and then calls no backend
\* function), when the backend reports zero jobs, and when the backend call
\* reports failure.
C15_EmptyNotError ==
    last.op = "get_job_status" =>
        /\ ~Authenticated(last.pre) => last.calls = <<>>
        /\ (~Authenticated(last.pre) \/ args.count = 0 \/ ~args.bk_ok) =>
                (args.exc = NoExc /\ last.ret = <<>>)

\* C15 witness: the backend call failed on an authenticated Session while it
\* had jobs to report, and the empty sequence came back
C15_Witness ==
    /\ last.op = "get_job_status"
    /\ Authenticated(last.pre)
    /\ last.calls # <<>>
    /\ ~args.bk_ok
    /\ args.count = 2
    /\ last.ret = <<>>

\* C16: marshalling the options of a submit never fails: for every options
\* mapping, whatever its keys and the types of its values, the conversion to
\* the options record completes and the call raises nothing.
C16_MarshallingNeverFails ==
    (last.op = "send_fax" /\ Authenticated(last.pre))
        => /\ Marshal(args.options).exc = NoExc
           /\ args.exc = NoExc

\* a mapping that is absent or empty, or has no key among the option fields
OnlyUnrecognizedKeys(o) ==
    \/ o.t = "null"
    \/ /\ o.t = "dict"
       /\ \A i \in 1..Len(o.v) : o.v[i][1] \notin FieldNames

\* C17: marshalling an empty mapping, or a mapping none of whose keys is an
\* option field (a key may name another attribute of the options object),
\* raises nothing and yields the all-defaults record.
C17_UnrecognizedKeysGiveDefaults ==
    (last.op = "send_fax" /\ Authenticated(last.pre) /\ OnlyUnrecognizedKeys(args.options))
        => /\ args.exc = NoExc
           /\ Marshal(args.options) = [exc |-> NoExc, c |-> DefaultOptions]
           /\ last.calls[1].param.options = DefaultOptions

\* the number of destinations of the most recent submit
NDest == PyLen(args.destinations)

\* result.get('group_id', ''): the group identifier of a submit result
GroupIdOf(result) == IF "group_id" \in DOMAIN result THEN result.group_id ELSE ""

\* C18: in every result submit returns, group_id is empty when there was
\* exactly one destination, and non-empty when there was more than one and
\* success is true.
C18_GroupIdByDestinations ==
    (last.op = "send_fax" /\ args.exc = NoExc)
        => /\ NDest = 1 => GroupIdOf(last.ret) = ""
           /\ (NDest > 1 /\ last.ret.success) => GroupIdOf(last.ret) # ""

\* C18 witness: a successful submission to two destinations came back with
\* the group identifier the backend gave it
C18_Witness ==
    /\ last.op = "send_fax"
    /\ args.exc = NoExc
    /\ NDest = 2
    /\ last.ret.success
    /\ last.ret.group_id = "g7"

\* a C string as the caller is to see it: an unset (NULL) one is empty
Shown(x) == IF x = None THEN "" ELSE x

\* C19: a submit that returns on an Authenticated Session returns a record of
\* five fields: success is true exactly when the backend call returned true
\* and the backend's result says success; job_id, group_id, total_pages and
\* error are the values the backend reported, an unset string being empty;
\* the error text is the backend's and no other.
C19_SubmitResultFromBackend ==
    (last.op = "send_fax" /\ Authenticated(last.pre) /\ args.exc = NoExc)
        => /\ DOMAIN last.ret = {"success", "job_id", "group_id", "total_pages", "error"}
           /\ last.ret.success = (args.bk_ok /\ args.bk_result.success)
           /\ last.ret.job_id = Shown(args.bk_result.jobId)
           /\ last.ret.group_id = Shown(args.bk_result.groupId)
           /\ last.ret.total_pages = args.bk_result.totalPages
           /\ last.ret.error = Shown(args.bk_result.errorMessage)
           /\ Len(last.calls) = 1

\* C19 witness: one file, one destination and empty options against a backend
\* reporting success, job 42 and three pages
C19_Witness ==
    /\ last.op = "send_fax"
    /\ Authenticated(last.pre)
    /\ args.destinations = JList(<<JStr("+15551234567")>>)
    /\ args.options = JDict(<<>>)
    /\ last.ret = [success |-> TRUE, job_id |-> "42", group_id |-> "",
                   total_pages |-> 3, error |-> ""]

\* C20: kill, suspend, resume and wait on an Authenticated Session return the
\* pair (success flag of the backend call, message of the backend call): a
\* failure with message m returns (FALSE, m), and the message is empty
\* whenever the backend reported success.
C20_ControlReturnsBackendPair ==
    (last.op \in ControlOps /\ Authenticated(last.pre))
        => /\ Len(last.calls) = 1
           /\ last.ret = <<args.bk_ok, args.bk_msg>>
           /\ last.ret[1] => last.ret[2] = ""

\* C20 witness: kill("42") against a backend reporting failure with the
\* message "job not found"
C20_Witness ==
    /\ last.op = "kill_job"
    /\ Authenticated(last.pre)
    /\ last.calls = <<Call("fax_api_kill_job", 1, "42")>>
    /\ last.ret = <<FALSE, "job not found">>


\* ------------------------------------- claims about the response classes
\* the request of worker r had its connect or its login refused by the backend
ConnectivityFailed(r) ==
    \E i \in At(req[r].trace, {"fax_api_connect", "fax_api_login"}) : ~req[r].trace[i].ok

\* the request of worker r had its submit or control call refused by the backend
OperationRejected(r) ==
    \E i \in At(req[r].trace, OpFns \ {"fax_api_get_job_status"}) : ~req[r].trace[i].ok

\* C21: on every endpoint a request whose connect or login failed is answered
\* 503 with success false and a non-empty message, and a request whose submit
\* or control operation the backend rejected is answered 400, never 503.
C21_ConnectivityFailureIs503 ==
    \A r \in Req :
        Done(r) =>
            /\ ConnectivityFailed(r) =>
                    /\ req[r].resp.status = 503
                    /\ ~req[r].resp.success
                    /\ req[r].resp.message # ""
            /\ OperationRejected(r) =>
                    /\ req[r].resp.status = 400
                    /\ ~req[r].resp.success
            /\ req[r].resp.status = 503 => ConnectivityFailed(r)

\* C21 witness: a kill request whose login the backend refused without any
\* message text, answered 503 "Login failed: "
C21_Witness ==
    \E r \in Req :
        /\ Done(r)
        /\ req[r].ep = "kill_job"
        /\ OkAt(req[r].trace, {"fax_api_connect"}) # {}
        /\ ConnectivityFailed(r)
        /\ req[r].resp = create_api_response(FALSE, NoData, "Login failed: ", 503)


\* the destinations field decodes to a list of strings, the options field to
\* a mapping or to null
DestinationsWellFormed(raw) ==
    LET d == ParseJSON(raw)
    IN  /\ ~d.err
        /\ d.v.t = "list"
        /\ \A i \in 1..Len(d.v.v) : d.v.v[i].t = "str"
OptionsWellFormed(raw) ==
    LET o == ParseJSON(raw)
    IN  ~o.err /\ o.v.t \in {"dict", "null"}

\* the request of worker r has a transport-level defect: no files part, no
\* selected or valid file, a malformed destinations or options field, an
\* unknown queue selector
TransportDefect(r) ==
    \/ /\ req[r].ep = "send_fax"
       /\ ~req[r].oversize
       /\ \/ \A i \in 1..Len(req[r].form.files) :
                req[r].form.files[i] = "" \/ ~allowed_file(req[r].form.files[i])
          \/ ~DestinationsWellFormed(req[r].form.destinations_str)
          \/ ~OptionsWellFormed(req[r].form.options_str)
    \/ /\ req[r].ep = "get_fax_status"
       /\ req[r].queue_param \notin DOMAIN queue_mapping

\* C22: a request with a transport-level defect is answered with a caller
\* error (400) before any backend handle is created and before any backend
\* call is made: once received, it is finished, with an empty trace.
C22_TransportDefectRejectedEarly ==
    \A r \in Req :
        (req[r].pc # "idle" /\ TransportDefect(r)) =>
            /\ req[r].pc = "done"
            /\ req[r].trace = <<>>
            /\ req[r].resp.status = 400
            /\ ~req[r].resp.success

\* C22, the part the handlers carry out: a request with no files part, no
\* selected or valid file, a destinations or options field that json.loads
\* cannot decode, or an unknown queue selector is answered 400 with an empty
\* trace.
C22_UndecodableRejectedEarly ==
    \A r \in Req :
        (/\ req[r].pc # "idle"
         /\ \/ /\ req[r].ep = "send_fax"
               /\ ~req[r].oversize
               /\ \/ \A i \in 1..Len(req[r].form.files) :
                        req[r].form.files[i] = "" \/ ~allowed_file(req[r].form.files[i])
                  \/ ParseJSON(req[r].form.destinations_str).err
                  \/ ParseJSON(req[r].form.options_str).err
            \/ /\ req[r].ep = "get_fax_status"
               /\ req[r].queue_param \notin DOMAIN queue_mapping) =>
            /\ req[r].pc = "done"
            /\ req[r].trace = <<>>
            /\ req[r].resp.status = 400
            /\ ~req[r].resp.success


\* C23: a request in which an unexpected internal error occurred is answered
\* 500 with a generic message; the text of the exception is not the message
\* of the response.
\* (A body over the size limit is the caller's error and is left out.)
C23_ExceptionTextNotInResponse ==
    \A r \in Req :
        (Done(r) /\ req[r].exc # NoExc /\ ~req[r].oversize) =>
            /\ req[r].resp.status = 500
            /\ ~req[r].resp.success
            /\ req[r].resp.message # ExcText(req[r].exc)


\* ------------------------------------- claims about the job-lookup endpoint
\* the job-lookup request of worker r has searched and been answered without
\* an exception
LookedUp(r) ==
    /\ Done(r)
    /\ req[r].ep = "get_job_info"
    /\ req[r].exc = NoExc
    /\ req[r].held # <<>>

\* C24: the job-lookup endpoint answers 404 "Job not found" only when the
\* send, done and archive queries all succeeded and none reported the job;
\* when a queue reports the job, the answer is the record of the first such
\* queue in the order send, done, archive; a request one of whose queries
\* failed is not answered 404.
C24_NotFoundOnlyWhenAbsent ==
    \A r \in Req :
        LookedUp(r) =>
            LET h == req[r].held
                hits == {i \in 1..Len(h) : h[i].present}
            IN  /\ req[r].resp.status = 404 =>
                    /\ req[r].resp.message = "Job not found"
                    /\ Len(h) = Len(SearchQueues)
                    /\ \A i \in 1..Len(h) : h[i].ok /\ ~h[i].present
                /\ hits # {} =>
                    /\ req[r].resp.status = 200
                    /\ \A i \in hits : i = Len(h)
                    /\ req[r].resp.data.job_id = req[r].job_id
                    /\ req[r].resp.data.queue = QueueLower(SearchQueues[Len(h)])
                /\ (\E i \in 1..Len(h) : ~h[i].ok) => req[r].resp.status # 404

\* C24, the part the handler carries out: with every query succeeding, 404
\* is answered exactly when none of the three queues reports the job, and
\* otherwise the record of the first queue that reports it.
C24_FirstQueueThatReports ==
    \A r \in Req :
        (LookedUp(r) /\ \A i \in 1..Len(req[r].held) : req[r].held[i].ok) =>
            LET h == req[r].held
                hits == {i \in 1..Len(h) : h[i].present}
            IN  /\ req[r].resp.status \in {200, 404}
                /\ req[r].resp.status = 404 <=> (hits = {} /\ Len(h) = Len(SearchQueues))
                /\ hits # {} =>
                    /\ hits = {Len(h)}
                    /\ req[r].resp.data.job_id = req[r].job_id
                    /\ req[r].resp.data.queue = QueueLower(SearchQueues[Len(h)])


\* C25: when the response of a send request is returned, on whatever path
\* the request left the handler after staging (connect failure, login
\* failure, submission success or failure, exception), none of the files it
\* staged is left on disk.
C25_NoStagedFileOutlivesRequest ==
    \A r \in Req :
        (Done(r) /\ req[r].ep = "send_fax") =>
            \A i \in 1..Len(req[r].uploaded_files) :
                req[r].uploaded_files[i] \notin req[r].disk

====
